---- MODULE Spec2Model ----
(***************************************************************************)
(* dev-utils: docx_to_md.py (Word documents to Markdown through pandoc)    *)
(* and md2pdf.py (Markdown to PDF through a headless browser).             *)
(*                                                                         *)
(* A path or file name is a sequence of tokens.  "/" is the separator,     *)
(* "." the extension separator; "docx", "md" and "pdf" stand for the       *)
(* letters of an extension, any other token for ordinary characters.       *)
(***************************************************************************)
EXTENDS Integers, Sequences, FiniteSets, TLC

VARIABLES
    tool, pc, exitCode, out,
    pypandocInstalled, pandocReachable, dirReadable, dirEntries,
    pandocChecked, listed, listing, idx, files_found, attempts, written,
    libsInstalled, pipWorks, chromePresent, firefoxOnPath, tree,
    md_files, cur, successful, failed, calls, results,
    events, cpExit, result, pdfs, tempExists,
    nmIn, nmOut, nmKind

envDocx == <<pypandocInstalled, pandocReachable, dirReadable, dirEntries>>
stDocx == <<pandocChecked, listed, listing, idx, files_found, attempts, written>>
envPdf == <<libsInstalled, pipWorks, chromePresent, firefoxOnPath, tree>>
scanPdf == <<md_files, cur, successful, failed, calls, results>>
filePdf == <<events, cpExit, result, pdfs, tempExists>>
stNaming == <<nmIn, nmOut, nmKind>>
vars == <<tool, pc, exitCode, out, envDocx, stDocx, envPdf, scanPdf, filePdf, stNaming>>

(* ------------------------------ bounds -------------------------------- *)
MaxFiles == 2
MaxPathLen == 4

(* --------------------------- path functions --------------------------- *)
DocxExt == <<".", "docx">>
MdExt == <<".", "md">>
PdfExt == <<".", "pdf">>

EndsWith(s, suf) ==
    /\ Len(s) >= Len(suf)
    /\ SubSeq(s, Len(s) - Len(suf) + 1, Len(s)) = suf

\* str.rfind, 1-based: the last position of c in s, 0 when there is none
RFind(s, c) ==
    LET hits == {i \in 1..Len(s) : s[i] = c}
    IN  IF hits = {} THEN 0 ELSE CHOOSE i \in hits : \A j \in hits : j <= i

\* the variant of splitext that does not skip leading dots
SplitextNoLeadingDots(p) ==
    LET sepIndex == RFind(p, "/")
        dotIndex == RFind(p, ".")
    IN  IF dotIndex > sepIndex
        THEN <<SubSeq(p, 1, dotIndex - 1), SubSeq(p, dotIndex, Len(p))>>
        ELSE <<p, <<>>>>

\* os.path.splitext: <<root, ext>>; a name made of leading dots only has no ext
splitext(p) ==
    LET sepIndex == RFind(p, "/")
        dotIndex == RFind(p, ".")
    IN  IF /\ dotIndex > sepIndex
           /\ \E k \in (sepIndex + 1)..(dotIndex - 1) : p[k] # "."
        THEN <<SubSeq(p, 1, dotIndex - 1), SubSeq(p, dotIndex, Len(p))>>
        ELSE <<p, <<>>>>

\* os.path.basename
basename(p) == SubSeq(p, RFind(p, "/") + 1, Len(p))

\* os.path.join of two parts
join(a, b) ==
    IF Len(b) > 0 /\ b[1] = "/" THEN b
    ELSE IF a = <<>> \/ a[Len(a)] = "/" THEN a \o b
    ELSE a \o <<"/">> \o b

\* docx_to_md.py: the script's own directory; md2pdf.py: output_dir = script_dir
ScriptDir == <<"/", "s">>

\* docx_to_md.py, base_name and md_path
MdPath(directory, filename) ==
    join(directory, splitext(filename)[1] \o MdExt)

\* docx_to_md.py, docx_path
DocxPath(directory, filename) == join(directory, filename)

\* the variant of pdf_path that mirrors the source's directories
PdfPathMirrored(md_file_path, output_dir) ==
    join(output_dir, splitext(md_file_path)[1] \o PdfExt)

\* md2pdf.py, base_name and pdf_path
PdfPath(md_file_path, output_dir) ==
    join(output_dir, splitext(basename(md_file_path))[1] \o PdfExt)

\* all orders of a finite set
Orders(S) ==
    {s \in [1..Cardinality(S) -> S] : \A i, j \in 1..Cardinality(S) : s[i] = s[j] => i = j}

Count(seq, P(_)) == Cardinality({i \in 1..Len(seq) : P(seq[i])})

(* ------------------------- docx_to_md.py ------------------------------ *)
\* file names a directory may hold: a.docx, .docx, b.docx, a.md, docx
DirPool ==
    { <<"a", ".", "docx">>, <<".", "docx">>, <<"b", ".", "docx">>,
      <<"a", ".", "md">>, <<"docx">> }

\* filename.endswith(".docx")
IsDocx(filename) == EndsWith(filename, DocxExt)

\* what convert_docx_to_markdown itself prints
ConvertMsgs == {"scanning", "converting", "success", "error", "not_found"}

Exit(code) == pc' = "exited" /\ exitCode' = code

\* the variant of the import guard that ends with sys.exit()
ImportPypandocExitZero ==
    /\ tool = "docx_to_md" /\ pc = "import"
    /\ IF pypandocInstalled
       THEN pc' = "main" /\ UNCHANGED <<exitCode, out>>
       ELSE out' = out \o <<"pypandoc_missing">> /\ Exit(0)
    /\ UNCHANGED <<tool, envDocx, stDocx, envPdf, scanPdf, filePdf, stNaming>>

\* try: import pypandoc / except ImportError: print, sys.exit(1)
ImportPypandoc ==
    /\ tool = "docx_to_md" /\ pc = "import"
    /\ IF pypandocInstalled
       THEN pc' = "main" /\ UNCHANGED <<exitCode, out>>
       ELSE out' = out \o <<"pypandoc_missing">> /\ Exit(1)
    /\ UNCHANGED <<tool, envDocx, stDocx, envPdf, scanPdf, filePdf, stNaming>>

\* the variant that goes on to the scan when pandoc is missing
EnsureNoExit ==
    /\ tool = "docx_to_md" /\ pc = "main"
    /\ pandocChecked' = TRUE
    /\ pc' = "scan"
    /\ out' = IF pandocReachable THEN out ELSE out \o <<"pandoc_missing", "pandoc_hint">>
    /\ UNCHANGED <<tool, exitCode, envDocx, listed, listing, idx, files_found, attempts,
                   written, envPdf, scanPdf, filePdf, stNaming>>

\* __main__ calls ensure_pandoc_installed first: get_pandoc_version raises
\* OSError when pandoc is not reachable
ensure_pandoc_installed ==
    /\ tool = "docx_to_md" /\ pc = "main"
    /\ pandocChecked' = TRUE
    /\ IF pandocReachable
       THEN pc' = "scan" /\ UNCHANGED <<exitCode, out>>
       ELSE out' = out \o <<"pandoc_missing", "pandoc_hint">> /\ Exit(1)
    /\ UNCHANGED <<tool, envDocx, listed, listing, idx, files_found, attempts, written,
                   envPdf, scanPdf, filePdf, stNaming>>

\* __main__ prints the target directory; convert_docx_to_markdown prints the
\* scanning line and calls os.listdir, whose OSError nothing catches
ListDirectory ==
    /\ tool = "docx_to_md" /\ pc = "scan"
    /\ IF dirReadable
       THEN /\ \E order \in Orders(dirEntries) : listing' = order
            /\ listed' = TRUE
            /\ out' = out \o <<"target_dir", "scanning">>
            /\ pc' = "loop"
            /\ UNCHANGED exitCode
       ELSE /\ out' = out \o <<"target_dir", "scanning", "traceback">>
            /\ Exit(1)
            /\ UNCHANGED <<listing, listed>>
    /\ idx' = 1
    /\ files_found' = FALSE
    /\ UNCHANGED <<tool, envDocx, pandocChecked, attempts, written,
                   envPdf, scanPdf, filePdf, stNaming>>

\* the variant whose conversion error leaves the loop and the process
ConvertFileNoCatch ==
    /\ tool = "docx_to_md" /\ pc = "loop" /\ idx <= Len(listing)
    /\ LET filename == listing[idx]
           docx_path == DocxPath(ScriptDir, filename)
           md_path == MdPath(ScriptDir, filename)
       IN  IF IsDocx(filename)
           THEN /\ files_found' = TRUE
                /\ attempts' = Append(attempts, docx_path)
                /\ \E ok \in BOOLEAN :
                     IF ok
                     THEN /\ written' = written \cup {md_path}
                          /\ out' = out \o <<"converting", "success">>
                          /\ idx' = idx + 1
                          /\ UNCHANGED <<pc, exitCode>>
                     ELSE /\ out' = out \o <<"converting", "traceback">>
                          /\ Exit(1)
                          /\ UNCHANGED <<written, idx>>
           ELSE /\ idx' = idx + 1
                /\ UNCHANGED <<pc, exitCode, files_found, attempts, written, out>>
    /\ UNCHANGED <<tool, envDocx, pandocChecked, listed, listing,
                   envPdf, scanPdf, filePdf, stNaming>>

\* one turn of the for loop: a matching entry is converted, pypandoc's
\* exception is caught and printed
ConvertFile ==
    /\ tool = "docx_to_md" /\ pc = "loop" /\ idx <= Len(listing)
    /\ LET filename == listing[idx]
           docx_path == DocxPath(ScriptDir, filename)
           md_path == MdPath(ScriptDir, filename)
       IN  IF IsDocx(filename)
           THEN /\ files_found' = TRUE
                /\ attempts' = Append(attempts, docx_path)
                /\ \E ok \in BOOLEAN :
                     IF ok
                     THEN /\ written' = written \cup {md_path}
                          /\ out' = out \o <<"converting", "success">>
                     ELSE /\ out' = out \o <<"converting", "error">>
                          /\ UNCHANGED written
           ELSE UNCHANGED <<files_found, attempts, written, out>>
    /\ idx' = idx + 1
    /\ UNCHANGED <<tool, pc, exitCode, envDocx, pandocChecked, listed, listing,
                   envPdf, scanPdf, filePdf, stNaming>>

\* the variant that prints nothing after the loop
FinishSilent ==
    /\ tool = "docx_to_md" /\ pc = "loop" /\ idx > Len(listing)
    /\ Exit(0)
    /\ UNCHANGED <<tool, out, envDocx, stDocx, envPdf, scanPdf, filePdf, stNaming>>

\* after the loop: if not files_found, print; the script ends
FinishDocx ==
    /\ tool = "docx_to_md" /\ pc = "loop" /\ idx > Len(listing)
    /\ out' = IF files_found THEN out ELSE out \o <<"not_found">>
    /\ Exit(0)
    /\ UNCHANGED <<tool, envDocx, stDocx, envPdf, scanPdf, filePdf, stNaming>>

(* ---------------------------- md2pdf.py ------------------------------- *)
\* paths below the scanned root: a.md, d/a.md, .md, .md.md, a.pdf
TreePool ==
    { <<"a", ".", "md">>, <<"d", "/", "a", ".", "md">>, <<".", "md">>,
      <<".", "md", ".", "md">>, <<"a", ".", "pdf">> }

\* Path.rglob('*.md'): the last component matches *.md
IsMd(path) == EndsWith(basename(path), MdExt)

\* how subprocess.run of a browser can end
RunOutcomes == {"ok", "CalledProcessError", "FileNotFoundError", "PermissionError"}

\* try: import markdown, jinja2 / except ImportError: pip install (check_call,
\* whose CalledProcessError nothing catches), import again
ImportMarkdown ==
    /\ tool = "md2pdf" /\ pc = "import"
    /\ IF libsInstalled
       THEN pc' = "main" /\ UNCHANGED <<exitCode, out>>
       ELSE IF pipWorks
            THEN pc' = "main" /\ out' = out \o <<"installing">> /\ UNCHANGED exitCode
            ELSE out' = out \o <<"installing", "traceback">> /\ Exit(1)
    /\ UNCHANGED <<tool, envDocx, stDocx, envPdf, scanPdf, filePdf, stNaming>>

\* __main__ and the head of scan_and_convert: the counters, md_files from rglob
ScanTree ==
    /\ tool = "md2pdf" /\ pc = "main"
    /\ successful' = 0 /\ failed' = 0
    /\ \E order \in Orders({p \in tree : IsMd(p)}) : md_files' = order
    /\ cur' = 1
    /\ out' = out \o <<"scanning_in", "saving_to", "found">>
    /\ pc' = "loop"
    /\ UNCHANGED <<tool, exitCode, envDocx, stDocx, envPdf, calls, results,
                   filePdf, stNaming>>

\* for md_file_path in md_files: convert_md_to_pdf(md_file_path, output_dir)
StartFile ==
    /\ tool = "md2pdf" /\ pc = "loop" /\ cur <= Len(md_files)
    /\ calls' = Append(calls, md_files[cur])
    /\ events' = <<>>
    /\ cpExit' = "none"
    /\ pc' = "read"
    /\ UNCHANGED <<tool, exitCode, out, envDocx, stDocx, envPdf, md_files, cur,
                   successful, failed, results, result, pdfs, tempExists, stNaming>>

\* the variant without the per-file handler: the exception ends the process
Uncaught(msgs) ==
    /\ out' = out \o msgs \o <<"traceback">>
    /\ result' = FALSE
    /\ pc' = "exited"

\* the variant of the handler that reports success
CaughtReturnsTrue(msgs) ==
    /\ out' = out \o msgs \o <<"error">>
    /\ result' = TRUE
    /\ pc' = "tally"

\* except Exception as e: print, return False
Caught(msgs) ==
    /\ out' = out \o msgs \o <<"error">>
    /\ result' = FALSE
    /\ pc' = "tally"

\* os.makedirs, open(md_file_path).read()
ReadMd ==
    /\ tool = "md2pdf" /\ pc = "read"
    /\ \E ok \in BOOLEAN :
         IF ok
         THEN /\ events' = Append(events, "read")
              /\ pc' = "render_html"
              /\ UNCHANGED <<out, result>>
         ELSE Caught(<<>>) /\ UNCHANGED events
    /\ UNCHANGED <<tool, exitCode, envDocx, stDocx, envPdf, scanPdf,
                   cpExit, pdfs, tempExists, stNaming>>

\* markdown.markdown and the jinja2 template
RenderHtml ==
    /\ tool = "md2pdf" /\ pc = "render_html"
    /\ \E ok \in BOOLEAN :
         IF ok
         THEN /\ events' = Append(events, "render_html")
              /\ pc' = "primary"
              /\ UNCHANGED <<out, result>>
         ELSE Caught(<<>>) /\ UNCHANGED events
    /\ UNCHANGED <<tool, exitCode, envDocx, stDocx, envPdf, scanPdf,
                   cpExit, pdfs, tempExists, stNaming>>

\* the variant of the Chrome block that leaves temp.html behind
ChromeAttemptWritesTemp(present, outcome) ==
    IF ~present
    THEN [exit |-> "fallthrough", msgs |-> <<>>, pdf |-> FALSE,
          invoked |-> FALSE, temp |-> FALSE]
    ELSE IF outcome = "ok"
    THEN [exit |-> "return_true", msgs |-> <<"chrome_ok">>, pdf |-> TRUE,
          invoked |-> TRUE, temp |-> TRUE]
    ELSE IF outcome \in {"CalledProcessError", "FileNotFoundError"}
    THEN [exit |-> "fallthrough", msgs |-> <<"chrome_failed">>, pdf |-> FALSE,
          invoked |-> TRUE, temp |-> TRUE]
    ELSE [exit |-> "raised", msgs |-> <<>>, pdf |-> FALSE,
          invoked |-> TRUE, temp |-> TRUE]

\* create_pdf_from_html, the Chrome block: the first existing chrome path is
\* run; SubprocessError and FileNotFoundError are caught and printed
ChromeAttempt(present, outcome) ==
    IF ~present
    THEN [exit |-> "fallthrough", msgs |-> <<>>, pdf |-> FALSE,
          invoked |-> FALSE, temp |-> FALSE]
    ELSE IF outcome = "ok"
    THEN [exit |-> "return_true", msgs |-> <<"chrome_ok">>, pdf |-> TRUE,
          invoked |-> TRUE, temp |-> FALSE]
    ELSE IF outcome \in {"CalledProcessError", "FileNotFoundError"}
    THEN [exit |-> "fallthrough", msgs |-> <<"chrome_failed">>, pdf |-> FALSE,
          invoked |-> TRUE, temp |-> FALSE]
    ELSE [exit |-> "raised", msgs |-> <<>>, pdf |-> FALSE,
          invoked |-> TRUE, temp |-> FALSE]

\* create_pdf_from_html, the Firefox block: md2pdf.py imports os, sys, base64,
\* subprocess and Path but not shutil, so shutil.which raises NameError, which
\* the block's except clause (SubprocessError, FileNotFoundError) does not catch
FirefoxAttempt(onPath, outcome) ==
    [exit |-> "raised", msgs |-> <<>>, pdf |-> FALSE, invoked |-> FALSE, temp |-> FALSE]

\* what convert_md_to_pdf does with an attempt that left create_pdf_from_html
Leave(r, pdf_path) ==
    /\ cpExit' = r.exit
    /\ tempExists' = (tempExists \/ r.temp)
    /\ pdfs' = IF r.pdf
               THEN {w \in pdfs : w.path # pdf_path}
                      \cup {[path |-> pdf_path, source |-> md_files[cur]]}
               ELSE pdfs
    /\ IF r.exit = "return_true"
       THEN /\ out' = out \o r.msgs \o <<"converted">>
            /\ result' = TRUE
            /\ pc' = "tally"
       ELSE IF r.exit = "return_false"
       THEN /\ out' = out \o r.msgs
            /\ result' = FALSE
            /\ pc' = "tally"
       ELSE Caught(r.msgs)

\* create_pdf_from_html: first, try Chrome
TryChrome ==
    /\ tool = "md2pdf" /\ pc = "primary"
    /\ \E outcome \in RunOutcomes :
         LET r == ChromeAttempt(chromePresent, outcome)
             pdf_path == PdfPath(md_files[cur], ScriptDir)
         IN  /\ events' = IF r.invoked THEN events \o <<"primary", "chrome_run">>
                          ELSE Append(events, "primary")
             /\ IF r.exit = "fallthrough"
                THEN /\ out' = out \o r.msgs
                     /\ pc' = "fallback"
                     /\ tempExists' = (tempExists \/ r.temp)
                     /\ UNCHANGED <<cpExit, result, pdfs>>
                ELSE Leave(r, pdf_path)
    /\ UNCHANGED <<tool, exitCode, envDocx, stDocx, envPdf, scanPdf, stNaming>>

\* create_pdf_from_html: try using Firefox if Chrome failed
TryFirefox ==
    /\ tool = "md2pdf" /\ pc = "fallback"
    /\ \E outcome \in RunOutcomes :
         LET r == FirefoxAttempt(firefoxOnPath, outcome)
             pdf_path == PdfPath(md_files[cur], ScriptDir)
         IN  /\ events' = IF r.invoked THEN events \o <<"fallback", "firefox_run">>
                          ELSE Append(events, "fallback")
             /\ Leave(r, pdf_path)
    /\ UNCHANGED <<tool, exitCode, envDocx, stDocx, envPdf, scanPdf, stNaming>>

\* if convert_md_to_pdf(...): successful += 1 else: failed += 1
Tally ==
    /\ tool = "md2pdf" /\ pc = "tally"
    /\ IF result
       THEN successful' = successful + 1 /\ failed' = failed
       ELSE successful' = successful /\ failed' = failed + 1
    /\ results' = Append(results, [path |-> md_files[cur], ok |-> result,
                                   events |-> events, cp |-> cpExit])
    /\ cur' = cur + 1
    /\ pc' = "loop"
    /\ UNCHANGED <<tool, exitCode, out, envDocx, stDocx, envPdf, md_files, calls,
                   filePdf, stNaming>>

\* the summary line, return successful, failed; the script ends
Summary ==
    /\ tool = "md2pdf" /\ pc = "loop" /\ cur > Len(md_files)
    /\ out' = Append(out, "summary")
    /\ Exit(0)
    /\ UNCHANGED <<tool, envDocx, stDocx, envPdf, scanPdf, filePdf, stNaming>>

(* -------------------------- specifications ---------------------------- *)
Subsets(S) == {T \in SUBSET S : Cardinality(T) <= MaxFiles}

InitIdle ==
    /\ pc = "import" /\ exitCode = 0 /\ out = <<>>
    /\ pandocChecked = FALSE /\ listed = FALSE /\ listing = <<>> /\ idx = 1
    /\ files_found = FALSE /\ attempts = <<>> /\ written = {}
    /\ md_files = <<>> /\ cur = 1 /\ successful = 0 /\ failed = 0
    /\ calls = <<>> /\ results = <<>>
    /\ events = <<>> /\ cpExit = "none" /\ result = FALSE /\ pdfs = {}
    /\ tempExists = FALSE

InitDocx ==
    /\ tool = "docx_to_md"
    /\ pypandocInstalled \in BOOLEAN /\ pandocReachable \in BOOLEAN
    /\ dirReadable \in BOOLEAN /\ dirEntries \in Subsets(DirPool)
    /\ libsInstalled = TRUE /\ pipWorks = TRUE /\ chromePresent = FALSE
    /\ firefoxOnPath = FALSE /\ tree = {}

InitPdf ==
    /\ tool = "md2pdf"
    /\ libsInstalled \in BOOLEAN /\ pipWorks \in BOOLEAN
    /\ chromePresent \in BOOLEAN /\ firefoxOnPath \in BOOLEAN
    /\ tree \in Subsets(TreePool)
    /\ pypandocInstalled = TRUE /\ pandocReachable = TRUE
    /\ dirReadable = TRUE /\ dirEntries = {}

Init ==
    /\ InitIdle
    /\ InitDocx \/ InitPdf
    /\ nmIn = <<>> /\ nmOut = <<>> /\ nmKind = "none"

Next ==
    \/ ImportPypandoc
    \/ ensure_pandoc_installed
    \/ ListDirectory
    \/ ConvertFile
    \/ FinishDocx
    \/ ImportMarkdown
    \/ ScanTree
    \/ StartFile
    \/ ReadMd
    \/ RenderHtml
    \/ TryChrome
    \/ TryFirefox
    \/ Tally
    \/ Summary

Spec == Init /\ [][Next]_vars

(* ----------------- output path derivation on its own ------------------ *)
NameTokens == {"a", ".", "docx", "md", "/"}

AllPaths == UNION {[1..n -> NameTokens] : n \in 1..MaxPathLen}

\* the components of a path, as the positions between separators
Components(p) ==
    LET seps == {0, Len(p) + 1} \cup {i \in 1..Len(p) : p[i] = "/"}
    IN  {SubSeq(p, i + 1, j - 1) : <<i, j>> \in
           {q \in seps \X seps : q[1] < q[2] /\ \A k \in seps : ~(q[1] < k /\ k < q[2])}}

\* a path the file system can hold: no empty, "." or ".." component after the root
WellFormed(p) ==
    /\ p[Len(p)] # "/"
    /\ \A i \in 1..(Len(p) - 1) : ~(p[i] = "/" /\ p[i + 1] = "/")
    /\ \A c \in Components(p) : c \notin {<<".">>, <<".", ".">>}

InitNaming ==
    /\ InitIdle
    /\ tool = "naming"
    /\ pypandocInstalled = TRUE /\ pandocReachable = TRUE
    /\ dirReadable = TRUE /\ dirEntries = {}
    /\ libsInstalled = TRUE /\ pipWorks = TRUE /\ chromePresent = FALSE
    /\ firefoxOnPath = FALSE /\ tree = {}
    /\ nmIn \in {p \in AllPaths : WellFormed(p)}
    /\ nmOut = <<>> /\ nmKind = "none"

\* docx_to_md.py: an entry of os.listdir that ends with .docx
NameDocx ==
    /\ nmKind = "none"
    /\ \A i \in 1..Len(nmIn) : nmIn[i] # "/"
    /\ IsDocx(nmIn)
    /\ nmKind' = "docx_to_md"
    /\ nmOut' = MdPath(ScriptDir, nmIn)
    /\ UNCHANGED <<tool, pc, exitCode, out, envDocx, stDocx, envPdf, scanPdf, filePdf, nmIn>>

\* md2pdf.py: a path rglob('*.md') yields
NameMd ==
    /\ nmKind = "none"
    /\ IsMd(nmIn)
    /\ nmKind' = "md2pdf"
    /\ nmOut' = PdfPath(nmIn, ScriptDir)
    /\ UNCHANGED <<tool, pc, exitCode, out, envDocx, stDocx, envPdf, scanPdf, filePdf, nmIn>>

NextNaming == NameDocx \/ NameMd

SpecNaming == InitNaming /\ [][NextNaming]_vars

(* ------------------------------ claims -------------------------------- *)
Failed(r) == ~r.ok
Succeeded(r) == r.ok

\* C1: in scan_and_convert every failed conversion adds exactly one to
\* failed and nothing to successful, and the files after it are still passed
\* to convert_md_to_pdf: the calls are a prefix of md_files, the counters
\* count the finished conversions by outcome, and the run ends only after
\* every discovered file was passed and tallied.
C1_FailureContained ==
    tool = "md2pdf" =>
        /\ failed = Count(results, Failed)
        /\ successful = Count(results, Succeeded)
        /\ Len(calls) <= Len(md_files)
        /\ calls = SubSeq(md_files, 1, Len(calls))
        /\ \A i \in 1..Len(results) : results[i].path = calls[i]
        /\ pc = "exited" => calls = md_files /\ Len(results) = Len(md_files)

\* a run ended with a failed conversion followed by a successful one
C1_Witness ==
    /\ tool = "md2pdf" /\ pc = "exited"
    /\ \E i, j \in 1..Len(results) : i < j /\ ~results[i].ok /\ results[j].ok
    /\ failed = 1 /\ successful = 1

\* C2: per file, the primary browser is tried first; whenever the primary
\* did not produce the PDF and control reached the Firefox block with
\* Firefox installed, Firefox is actually run; Firefox is never run after a
\* primary success; the file succeeds iff one of the two runs succeeded.
C2_FallbackAttempted ==
    tool = "md2pdf" =>
        \A i \in 1..Len(results) :
            LET r == results[i]
                ran(b) == \E k \in 1..Len(r.events) : r.events[k] = b
                primaryOk == r.ok /\ ~ran("fallback")
            IN  /\ ran("fallback") /\ firefoxOnPath => ran("firefox_run")
                /\ primaryOk => ~ran("firefox_run")
                /\ r.ok => ran("chrome_run") \/ ran("firefox_run")

\* the docx entries of the directory
Matching == {n \in dirEntries : IsDocx(n)}

\* C3: a directory with N entries ending with .docx gets exactly N
\* conversion attempts, one per matching entry, whatever earlier conversions
\* raised, and files_found is true iff N > 0.
C3_OneAttemptPerMatch ==
    tool = "docx_to_md" =>
        /\ Len(attempts) <= Cardinality(Matching)
        /\ \A i, j \in 1..Len(attempts) : attempts[i] = attempts[j] => i = j
        /\ (pc = "exited" /\ listed) =>
              /\ Len(attempts) = Cardinality(Matching)
              /\ {attempts[i] : i \in 1..Len(attempts)}
                    = {DocxPath(ScriptDir, n) : n \in Matching}
              /\ files_found <=> Cardinality(Matching) > 0

\* two matching entries, the first conversion raised, the second was attempted
C3_Witness ==
    /\ tool = "docx_to_md" /\ pc = "exited" /\ listed
    /\ Cardinality(Matching) = 2 /\ Len(attempts) = 2
    /\ \E i, j \in 1..Len(out) : i < j /\ out[i] = "error" /\ out[j] = "converting"

\* C4: with neither Chrome nor Firefox available every conversion is
\* reported as a failure and counted in failed, and no PDF is written.
C4_NoBrowserFails ==
    (tool = "md2pdf" /\ ~chromePresent /\ ~firefoxOnPath) =>
        /\ successful = 0
        /\ failed = Len(results)
        /\ \A i \in 1..Len(results) : ~results[i].ok
        /\ pc = "tally" => ~result
        /\ pdfs = {}

\* without browsers, a file was read and rendered, reached the browsers and
\* was counted as failed
C4_Witness ==
    /\ tool = "md2pdf" /\ ~chromePresent /\ ~firefoxOnPath
    /\ failed >= 1
    /\ \E i \in 1..Len(results) :
          \E k \in 1..Len(results[i].events) : results[i].events[k] = "fallback"

\* the matched name without its extension
Stem(name, ext) == SubSeq(name, 1, Len(name) - Len(ext))

OnlyDots(s) == \A i \in 1..Len(s) : s[i] = "."

\* C5 as stated: for every matched name, also one that is only the
\* extension, pipeline 1 writes <name without .docx>.md in the source's
\* directory and pipeline 2 writes <name without .md>.pdf directly in the
\* output directory.
C5_BaseNameWithTargetExt ==
    /\ nmKind = "docx_to_md" => nmOut = join(ScriptDir, Stem(nmIn, DocxExt) \o MdExt)
    /\ nmKind = "md2pdf" => nmOut = join(ScriptDir, Stem(basename(nmIn), MdExt) \o PdfExt)

\* C5 as amended: the extension is replaced when a character other than "."
\* precedes it; a matched name that is only dots and the extension keeps its
\* whole name and gets the target extension appended.  Either way the output
\* is one component directly below the directory.
C5_Amended ==
    LET name == IF nmKind = "docx_to_md" THEN nmIn ELSE basename(nmIn)
        from == IF nmKind = "docx_to_md" THEN DocxExt ELSE MdExt
        to == IF nmKind = "docx_to_md" THEN MdExt ELSE PdfExt
        file == IF OnlyDots(Stem(name, from)) THEN name \o to
                ELSE Stem(name, from) \o to
    IN  nmKind # "none" =>
            /\ nmOut = ScriptDir \o <<"/">> \o file
            /\ \A i \in 1..Len(file) : file[i] # "/"

\* the name .docx was derived to .docx.md
C5_Witness ==
    /\ nmKind = "docx_to_md" /\ nmIn = DocxExt
    /\ nmOut = ScriptDir \o <<"/">> \o DocxExt \o MdExt

\* C6: ensure_pandoc_installed runs before any directory scan; when pandoc
\* is unreachable the run reports it and ends with nothing enumerated,
\* converted or written.
C6_PreflightFirst ==
    tool = "docx_to_md" =>
        /\ listed => pandocChecked /\ pandocReachable
        /\ pc \in {"scan", "loop"} => pandocChecked /\ pandocReachable
        /\ ~pandocReachable => ~listed /\ listing = <<>> /\ attempts = <<>> /\ written = {}
        /\ (pandocChecked /\ ~pandocReachable) =>
              pc = "exited" /\ exitCode = 1 /\ out = <<"pandoc_missing", "pandoc_hint">>

\* pandoc was found unreachable in a directory that holds docx files
C6_Witness ==
    /\ tool = "docx_to_md" /\ pandocChecked /\ ~pandocReachable
    /\ pc = "exited" /\ Matching # {} /\ dirReadable

\* C7 as stated: a non-zero exit status happens only in pipeline 1 and only
\* when pandoc is unreachable; every other run exits 0.
C7_NonZeroOnlyWithoutPandoc ==
    pc = "exited" => (exitCode # 0 => tool = "docx_to_md" /\ ~pandocReachable)

\* C7 as amended: pipeline 1 exits non-zero exactly when pypandoc is missing,
\* pandoc is unreachable or listing the directory raises; pipeline 2 exactly
\* when markdown/jinja2 are missing and installing them fails; per-file
\* failures never change the status.
C7_Amended ==
    (pc = "exited" /\ tool \in {"docx_to_md", "md2pdf"}) =>
        /\ exitCode \in {0, 1}
        /\ exitCode # 0 <=>
              IF tool = "docx_to_md"
              THEN ~pypandocInstalled \/ ~pandocReachable \/ ~dirReadable
              ELSE ~libsInstalled /\ ~pipWorks

\* pipeline 1 ended with status 1 although pandoc is reachable
C7_Witness ==
    /\ tool = "docx_to_md" /\ pc = "exited" /\ exitCode = 1
    /\ ~pypandocInstalled /\ pandocReachable /\ dirReadable

\* what convert_docx_to_markdown printed
ConvertOut == SelectSeq(out, LAMBDA m : m \in ConvertMsgs)

\* C8 as stated: with no matching entry no conversion is attempted and the
\* not-found message is the only output of convert_docx_to_markdown.
C8_OnlyNotFound ==
    (tool = "docx_to_md" /\ pc = "exited" /\ listed /\ Matching = {}) =>
        attempts = <<>> /\ ConvertOut = <<"not_found">>

\* C8 as amended: no conversion is attempted, nothing is written, and the
\* function prints the scanning line followed by the not-found message.
C8_Amended ==
    (tool = "docx_to_md" /\ pc = "exited" /\ listed /\ Matching = {}) =>
        /\ attempts = <<>> /\ written = {}
        /\ ConvertOut = <<"scanning", "not_found">>

\* a directory with entries, none of them a docx, was scanned to the end
C8_Witness ==
    /\ tool = "docx_to_md" /\ pc = "exited" /\ listed
    /\ Matching = {} /\ dirEntries # {}
    /\ ConvertOut = <<"scanning", "not_found">>

BaseName(path) == splitext(basename(path))[1]

\* C10: Markdown files with the same base name are converted to the same
\* output path, the later one overwriting the earlier, each counted as a
\* success; after the loop the number of distinct PDFs written is at most
\* successful, with equality iff the successfully converted files have
\* distinct base names.
C10_FlattenedOverwrite ==
    (tool = "md2pdf" /\ pc \in {"loop", "exited"}) =>
        LET succ == {i \in 1..Len(results) : results[i].ok}
            bases == {BaseName(results[i].path) : i \in succ}
            paths == {w.path : w \in pdfs}
        IN  /\ Cardinality(pdfs) = Cardinality(paths)
            /\ Cardinality(paths) <= successful
            /\ Cardinality(paths) = successful <=> Cardinality(bases) = Cardinality(succ)
            /\ paths = {ScriptDir \o <<"/">> \o b \o PdfExt : b \in bases}
            /\ \A w \in pdfs : \E i \in succ :
                  /\ results[i].path = w.source
                  /\ \A j \in succ :
                        BaseName(results[j].path) = BaseName(w.source) => j <= i

\* two files in different directories with the same base name, both
\* counted as successes, one PDF
C10_Witness ==
    /\ tool = "md2pdf" /\ pc = "exited"
    /\ successful = 2 /\ Cardinality(pdfs) = 1
    /\ \E i, j \in 1..Len(results) :
          /\ i # j
          /\ basename(results[i].path) = basename(results[j].path)

====
